---- MODULE Spec2Model ----
(***************************************************************************)
(* Thin-plate-spline transform of skimage/transform/_thin_plate_splines.py *)
(* as a state machine: one TpsTransform instance (estimate, __call__,      *)
(* inverse) and the tps_warp function.                                     *)
(*                                                                         *)
(* Arrays are numpy arrays reduced to what the code branches on: a shape   *)
(* and the flat (row-major) integer data.  The floating-point results      *)
(* (the solved coefficient matrix, the warped coordinates) are kept as     *)
(* terms naming the inputs they were computed from.                        *)
(***************************************************************************)
EXTENDS Integers, Sequences, FiniteSets, TLC

VARIABLES
    estimated,   \* self._estimated
    parameters,  \* self.parameters: None or the coefficient matrix
    src,         \* self.src
    dst,         \* self.dst
    succeeded,   \* history: some estimate call on the instance has returned True
    last,        \* the last operation begun on the instance; for estimate and
                 \* inverse, what it raised and returned
    pc,          \* per evaluation call: where it stands inside __call__
    coords,      \* per evaluation call: its argument
    coeffs,      \* per evaluation call: the local `coeffs`
    xwarp,       \* per evaluation call: the local `x_warp`
    result,      \* per evaluation call: what it returned or raised
    args,        \* the (src, dst) arguments an estimate call is studied on
    warp         \* a tps_warp call: its arguments and its outcome

inst == <<estimated, parameters, src, dst>>
calls == <<pc, coords, coeffs, xwarp, result>>
vars == <<estimated, parameters, src, dst, succeeded, last, pc, coords, coeffs,
          xwarp, result, args, warp>>

(***************************************************************************)
(* Bounds of the model.                                                    *)
(***************************************************************************)
\* landmark arrays have 0..MaxLen rows
MaxLen == 4
\* evaluation calls that may be in flight on the one instance
MaxCalls == 2
\* output regions lie in 0..MaxExtent on both axes
MaxExtent == 3
\* grid_scaling is None or 1..MaxScale
MaxScale == 4
\* image ranks 0..MaxRank
MaxRank == 4

(***************************************************************************)
(* Values.                                                                 *)
(***************************************************************************)
None == [none |-> TRUE]

NoError == "none"
ErrNot2D == "ValueError: Array must be be 2D."
ErrEmpty == "ValueError: Array of points can not be empty."
ErrLessThan3 == "ValueError: Array points less than 3 is undefined."
ErrShapeMismatch == "ValueError: src and dst shape must be identical"
ErrBroadcast == "ValueError: could not broadcast input array"
ErrSingular == "LinAlgError: Singular matrix"
ErrUninitialized == "ValueError: None. Compute the estimate"
ErrCoordsShape == "ValueError: Input coords must have shape (N,2)"
ErrNotImplemented == "NotImplementedError: This is yet to be implemented."
ErrIndex == "IndexError"
ErrType == "TypeError"
ErrInvalidShape == "ValueError: Cannot warp image with invalid shape"
ErrRank == "ValueError: Only 2D and 3D images are supported"

Min(a, b) == IF a <= b THEN a ELSE b

RECURSIVE Prod(_)
Prod(s) == IF s = <<>> THEN 1 ELSE Head(s) * Prod(Tail(s))

\* numpy: ndarray.ndim, ndarray.size, len(ndarray)
Ndim(a) == Len(a.shape)
Size(a) == Prod(a.shape)
Length(a) == a.shape[1]

\* row i (1-based) of a 2-D array
Row(a, i) == SubSeq(a.data, (i - 1) * a.shape[2] + 1, i * a.shape[2])

(***************************************************************************)
(* The arrays the calls are given.                                         *)
(***************************************************************************)
SRC == << <<0, 0>>, <<0, 5>>, <<5, 5>>, <<5, 0>> >>
DST == << <<5, 0>>, <<0, 0>>, <<0, 5>>, <<5, 5>> >>

\* the first n points of a cyclic repetition of pts, as an (n, 2) array
Cycle(pts, n) ==
    [shape |-> <<n, 2>>,
     data |-> [k \in 1..(2 * n) |->
                  pts[(((k - 1) \div 2) % Len(pts)) + 1][((k - 1) % 2) + 1]]]
Square(n) == Cycle(SRC, n)
Rolled(n) == Cycle(DST, n)
\* three landmarks on the diagonal
Line == [shape |-> <<3, 2>>, data |-> <<0, 0, 1, 1, 2, 2>>]
\* a 1-D array of n values, as array_1d of the tests
Flat(n) == [shape |-> <<n>>, data |-> [k \in 1..n |-> 5 * (k - 1)]]
\* an (n, 3) array
Wide(n) == [shape |-> <<n, 3>>, data |-> [k \in 1..(3 * n) |-> k - 1]]
\* a scalar and a 3-D array, as in test_tps_transform_ensure_2d
Scalar == [shape |-> <<>>, data |-> <<5>>]
Cube == [shape |-> <<2, 2, 2>>, data |-> <<0, 5, 10, 15, 20, 25, 30, 35>>]

\* a (2, 0) array: two rows and no element
Hollow == [shape |-> <<2, 0>>, data |-> <<>>]

Landmarks ==
    {Scalar, Cube, Hollow, Line, Rolled(MaxLen), Wide(3)}
    \cup {Square(n) : n \in 0..MaxLen} \cup {Flat(n) : n \in 0..MaxLen}

\* the arguments of the evaluation calls
Queries == {Square(2), Rolled(2), Wide(3), Scalar}

(***************************************************************************)
(* _ensure_2d                                                              *)
(***************************************************************************)
MinPoints == 3

\* array[:, None] of a 1-D array
Expand(a) == [shape |-> <<a.shape[1], 1>>, data |-> a.data]

\* _ensure_2d with the length looked at before the size
Ensure2dLengthFirst(arr) ==
    IF Ndim(arr) \notin {1, 2} THEN [err |-> ErrNot2D, array |-> None]
    ELSE LET array == IF Ndim(arr) = 1 THEN Expand(arr) ELSE arr
         IN  IF Length(array) < MinPoints
             THEN [err |-> ErrLessThan3, array |-> None]
             ELSE IF Size(array) = 0 THEN [err |-> ErrEmpty, array |-> None]
                  ELSE [err |-> NoError, array |-> array]

Ensure2d(arr) ==
    IF Ndim(arr) \notin {1, 2} THEN [err |-> ErrNot2D, array |-> None]
    ELSE LET array == IF Ndim(arr) = 1 THEN Expand(arr) ELSE arr
         IN  IF Size(array) = 0 THEN [err |-> ErrEmpty, array |-> None]
             ELSE IF Length(array) < MinPoints
                  THEN [err |-> ErrLessThan3, array |-> None]
                  ELSE [err |-> NoError, array |-> array]

(***************************************************************************)
(* TpsTransform.estimate                                                   *)
(***************************************************************************)
\* the rows of the (n+3, 2) coefficient matrix: n weights, then a1, ax, ay
AffineRows == 3

\* two landmarks coincide: two rows of L are equal
Duplicate(a) ==
    \E i, j \in 1..Length(a) : i < j /\ Row(a, i) = Row(a, j)

\* all landmarks of an (n, 2) array lie on one line: P has rank < 3
Collinear(a) ==
    \A i, j, k \in 1..Length(a) :
        LET p == Row(a, i)
            q == Row(a, j)
            r == Row(a, k)
        IN  (q[1] - p[1]) * (r[2] - p[2]) = (q[2] - p[2]) * (r[1] - p[1])

\* np.linalg.inv(L) raises only when the elimination meets an exact zero pivot.
\* For a singular L (coinciding or collinear landmarks) the float32 elimination
\* may or may not end on an exact zero, so both outcomes are kept.
InvRaises(a) ==
    IF Duplicate(a) \/ Collinear(a) THEN {TRUE, FALSE} ELSE {FALSE}

\* np.dot(np.linalg.inv(L), V): L is built from s, V from d
Solve(s, d) ==
    [rows |-> Length(s) + AffineRows, cols |-> d.shape[2], L |-> s, V |-> d]

\* L[:n, -3:] = P with P = hstack([ones((n, 1)), src]) of shape (n, d + 1)
PFits(s) == s.shape[2] + 1 = AffineRows

\* only the last axis compared, as in the check the code has commented out
ShapesDifferLastAxis(a, b) == a.shape[2] # b.shape[2]

\* `src.shape != dst.shape`
ShapesDiffer(a, b) == a.shape # b.shape

\* TpsTransform.__init__
Fresh == [estimated |-> FALSE, parameters |-> None, src |-> None, dst |-> None]

\* the instance as a record of its fields
Self == [estimated |-> estimated, parameters |-> parameters, src |-> src, dst |-> dst]

\* the outcomes of self.estimate(s, d): the instance after the call, the value
\* returned and the exception raised
EstimateOutcomes(self, s, d) ==
    LET es == Ensure2d(s)
        ed == Ensure2d(d)
    IN  IF es.err # NoError THEN {[self |-> self, err |-> es.err, ret |-> None]}
        ELSE IF ed.err # NoError THEN {[self |-> self, err |-> ed.err, ret |-> None]}
        ELSE IF ShapesDiffer(es.array, ed.array)
             THEN {[self |-> self, err |-> ErrShapeMismatch, ret |-> None]}
        ELSE LET assigned == [self EXCEPT !.src = es.array, !.dst = ed.array]
             IN  IF ~PFits(es.array)
                 THEN {[self |-> assigned, err |-> ErrBroadcast, ret |-> None]}
                 ELSE {IF raises
                       THEN [self |-> assigned, err |-> ErrSingular, ret |-> None]
                       ELSE [self |-> [assigned EXCEPT
                                          !.parameters = Solve(es.array, ed.array),
                                          !.estimated = TRUE],
                             err |-> NoError, ret |-> [value |-> TRUE]]
                       : raises \in InvRaises(es.array)}

\* no evaluation call is in flight: estimate and inverse are run by the one
\* thread that owns the instance, only evaluation calls overlap each other
AllIdle == \A p \in 1..MaxCalls : pc[p] = "idle"

Estimate(s, d) ==
    /\ AllIdle
    /\ \E o \in EstimateOutcomes(Self, s, d) :
        /\ estimated' = o.self.estimated
        /\ parameters' = o.self.parameters
        /\ src' = o.self.src
        /\ dst' = o.self.dst
        /\ succeeded' = (succeeded \/ o.err = NoError)
        /\ last' = [op |-> "estimate", err |-> o.err, ret |-> o.ret]
    /\ UNCHANGED <<calls, args, warp>>

(***************************************************************************)
(* TpsTransform.inverse                                                    *)
(***************************************************************************)
\* an inverse that hands back the instance with src and dst exchanged
InverseReturns ==
    /\ AllIdle
    /\ last' = [op |-> "inverse", err |-> NoError,
                ret |-> [value |-> [Self EXCEPT !.src = dst, !.dst = src]]]
    /\ UNCHANGED <<inst, succeeded, calls, args, warp>>

Inverse ==
    /\ AllIdle
    /\ last' = [op |-> "inverse", err |-> ErrNotImplemented, ret |-> None]
    /\ UNCHANGED <<inst, succeeded, calls, args, warp>>

(***************************************************************************)
(* TpsTransform.__call__ and _spline_function                              *)
(***************************************************************************)
\* the guard of __call__ looking at self.src
NotEstimatedBySrc == src = None

\* `if self.parameters is None`
NotEstimated == parameters = None

\* `not coords.ndim == 2 or coords.shape[1] != 2`
BadCoords(c) == Ndim(c) # 2 \/ c.shape[2] # 2

\* _spline_function(x, y, coeffs[:, axis]) reading self.src = s: the weights
\* coeffs[:-3] are zipped with the rows of s, Pi[0] and Pi[1] are read of each
SplineFunction(s, cf, axis, c) ==
    IF cf = None \/ s = None THEN [err |-> ErrType, value |-> None]
    ELSE LET pairs == Min(cf.rows - AffineRows, Length(s))
         IN  IF pairs > 0 /\ s.shape[2] < 2 THEN [err |-> ErrIndex, value |-> None]
             ELSE [err |-> NoError,
                   value |-> [axis |-> axis, coeffs |-> cf, at |-> c,
                              centres |-> [i \in 1..pairs |-> Row(s, i)]]]

\* np.vstack([x_warp, y_warp]).T
VStackT(x, y) == [err |-> NoError, value |-> [x |-> x.value, y |-> y.value]]

\* __call__(coords) run from its first line to its last with nothing in between
CallAlone(self, c) ==
    IF self.parameters = None THEN [err |-> ErrUninitialized, value |-> None]
    ELSE IF BadCoords(c) THEN [err |-> ErrCoordsShape, value |-> None]
    ELSE LET x == SplineFunction(self.src, self.parameters, 0, c)
             y == SplineFunction(self.src, self.parameters, 1, c)
         IN  IF x.err # NoError THEN x
             ELSE IF y.err # NoError THEN y
             ELSE VStackT(x, y)

\* lines 59-65: the checks, and `coeffs = self.parameters`
CallBegin(p, c) ==
    /\ pc[p] = "idle"
    /\ coords' = [coords EXCEPT ![p] = c]
    /\ IF NotEstimated
       THEN /\ result' = [result EXCEPT ![p] = [err |-> ErrUninitialized, value |-> None]]
            /\ pc' = [pc EXCEPT ![p] = "done"]
            /\ UNCHANGED coeffs
       ELSE /\ coeffs' = [coeffs EXCEPT ![p] = parameters]
            /\ IF BadCoords(c)
               THEN /\ result' = [result EXCEPT ![p] = [err |-> ErrCoordsShape, value |-> None]]
                    /\ pc' = [pc EXCEPT ![p] = "done"]
               ELSE /\ pc' = [pc EXCEPT ![p] = "x_warp"]
                    /\ UNCHANGED result
    /\ last' = [op |-> "call", err |-> NoError, ret |-> None]
    /\ UNCHANGED <<inst, succeeded, xwarp, args, warp>>

\* an x_warp step that keeps the query points on the instance
CallXWarpCaching(p) ==
    /\ pc[p] = "x_warp"
    /\ LET x == SplineFunction(src, coeffs[p], 0, coords[p])
       IN  IF x.err # NoError
           THEN /\ result' = [result EXCEPT ![p] = x]
                /\ pc' = [pc EXCEPT ![p] = "done"]
                /\ UNCHANGED xwarp
           ELSE /\ xwarp' = [xwarp EXCEPT ![p] = x]
                /\ pc' = [pc EXCEPT ![p] = "y_warp"]
                /\ UNCHANGED result
    /\ src' = coords[p]
    /\ UNCHANGED <<estimated, parameters, dst, succeeded, last, coords, coeffs,
                   args, warp>>

\* line 68: x_warp = self._spline_function(..., coeffs[:, 0])
CallXWarp(p) ==
    /\ pc[p] = "x_warp"
    /\ LET x == SplineFunction(src, coeffs[p], 0, coords[p])
       IN  IF x.err # NoError
           THEN /\ result' = [result EXCEPT ![p] = x]
                /\ pc' = [pc EXCEPT ![p] = "done"]
                /\ UNCHANGED xwarp
           ELSE /\ xwarp' = [xwarp EXCEPT ![p] = x]
                /\ pc' = [pc EXCEPT ![p] = "y_warp"]
                /\ UNCHANGED result
    /\ UNCHANGED <<inst, succeeded, last, coords, coeffs, args, warp>>

\* lines 69-70: y_warp, and the return
CallYWarp(p) ==
    /\ pc[p] = "y_warp"
    /\ LET y == SplineFunction(src, coeffs[p], 1, coords[p])
       IN  result' = [result EXCEPT ![p] = IF y.err # NoError THEN y
                                           ELSE VStackT(xwarp[p], y)]
    /\ pc' = [pc EXCEPT ![p] = "done"]
    /\ UNCHANGED <<inst, succeeded, last, coords, coeffs, xwarp, args, warp>>

\* the caller takes the result; the call's locals are gone
CallReturn(p) ==
    /\ pc[p] = "done"
    /\ pc' = [pc EXCEPT ![p] = "idle"]
    /\ coords' = [coords EXCEPT ![p] = None]
    /\ coeffs' = [coeffs EXCEPT ![p] = None]
    /\ xwarp' = [xwarp EXCEPT ![p] = None]
    /\ result' = [result EXCEPT ![p] = None]
    /\ UNCHANGED <<inst, succeeded, last, args, warp>>

(***************************************************************************)
(* The instance: estimate and inverse run one at a time; evaluation calls  *)
(* may overlap each other.                                                 *)
(***************************************************************************)
NoWarp == None

Init ==
    /\ estimated = FALSE
    /\ parameters = None
    /\ src = None
    /\ dst = None
    /\ succeeded = FALSE
    /\ last = [op |-> "init", err |-> NoError, ret |-> None]
    /\ pc = [p \in 1..MaxCalls |-> "idle"]
    /\ coords = [p \in 1..MaxCalls |-> None]
    /\ coeffs = [p \in 1..MaxCalls |-> None]
    /\ xwarp = [p \in 1..MaxCalls |-> None]
    /\ result = [p \in 1..MaxCalls |-> None]
    /\ args = <<None, None>>
    /\ warp = NoWarp

Next ==
    \/ \E s, d \in Landmarks : Estimate(s, d)
    \/ Inverse
    \/ \E p \in 1..MaxCalls, c \in Queries : CallBegin(p, c)
    \/ \E p \in 1..MaxCalls : CallXWarp(p)
    \/ \E p \in 1..MaxCalls : CallYWarp(p)
    \/ \E p \in 1..MaxCalls : CallReturn(p)

Spec == Init /\ [][Next]_vars

(***************************************************************************)
(* estimate as a function of its arguments: the arguments are drawn, and   *)
(* the call is made on the instance.                                       *)
(***************************************************************************)
InitEstimate ==
    /\ estimated = FALSE
    /\ parameters = None
    /\ src = None
    /\ dst = None
    /\ succeeded = FALSE
    /\ last = [op |-> "init", err |-> NoError, ret |-> None]
    /\ pc = [p \in 1..MaxCalls |-> "idle"]
    /\ coords = [p \in 1..MaxCalls |-> None]
    /\ coeffs = [p \in 1..MaxCalls |-> None]
    /\ xwarp = [p \in 1..MaxCalls |-> None]
    /\ result = [p \in 1..MaxCalls |-> None]
    /\ args \in Landmarks \X Landmarks
    /\ warp = NoWarp

NextEstimate == Estimate(args[1], args[2])

EstimateSpec == InitEstimate /\ [][NextEstimate]_vars

(***************************************************************************)
(* tps_warp                                                                *)
(***************************************************************************)
\* a rational number is a pair <<numerator, denominator>>, denominator > 0
Rat(n) == <<n, 1>>
RatEq(a, b) == a[1] * b[2] = b[1] * a[2]
RatLeq(a, b) == a[1] * b[2] <= b[1] * a[2]
RatMax(a, b) == IF RatLeq(a, b) THEN b ELSE a
RatMin(a, b) == IF RatLeq(a, b) THEN a ELSE b

\* np.clip(a, lo, hi) = minimum(maximum(a, lo), hi)
Clip(a, lo, hi) == RatMin(RatMax(a, Rat(lo)), Rat(hi))

\* lines 247-253: the checks on the image, in the order the code makes them
ValidateImage(image) ==
    IF Ndim(image) = 0 THEN ErrIndex
    ELSE IF image.shape[1] = 0 THEN ErrInvalidShape
    ELSE IF Ndim(image) = 1 THEN ErrIndex
    ELSE IF image.shape[2] = 0 THEN ErrInvalidShape
    ELSE IF Ndim(image) \notin {2, 3} THEN ErrRank
    ELSE NoError

\* `output_region or (0, 0, image.shape[0], image.shape[1])`; None is <<>>
OutputRegion(image, region) ==
    IF region = <<>> THEN <<0, 0, image.shape[1], image.shape[2]>> ELSE region

\* `if grid_scaling is None: grid_scaling = 1`; None is <<>>
GridScaling(scaling) == IF scaling = <<>> THEN 1 ELSE scaling[1]

\* (x_max - x_min) // grid_scaling
Steps(lo, hi, scale) == (hi - lo) \div scale

\* np.mgrid[lo : hi : steps * 1j] along one axis: `steps` points from lo to hi,
\* hi included; the step is (hi - lo) / (steps - 1) unless steps = 1
Nodes(lo, hi, steps) ==
    [i \in 1..steps |->
        IF steps = 1 THEN Rat(lo)
        ELSE <<lo * (steps - 1) + (i - 1) * (hi - lo), steps - 1>>]

\* np.mgrid[lo:hi] along one axis: the pixels lo, lo + 1, ..., hi - 1
Pixels(lo, hi) == [i \in 1..(hi - lo) |-> Rat(lo + i - 1)]

\* lines 276-280: the coarse-grid coordinate of every pixel of one axis
Indices(lo, hi, steps) ==
    [i \in 1..(hi - lo) |->
        Clip(<<(steps - 1) * (Pixels(lo, hi)[i][1] - lo), hi - lo>>, 0, steps - 1)]

\* np.vstack([xx.ravel(), yy.ravel()]).T: one row per node of the mesh
Mesh(xs, ys) == [shape |-> <<Len(xs) * Len(ys), 2>>, data |-> <<xs, ys>>]

\* sp.ndimage.map_coordinates(transform[k], [x_indices, y_indices]) on a grid
\* without nodes: what scipy does there is not in this repository; it raises
\* or returns an array
UpsampleRaises(xSteps, ySteps) ==
    IF xSteps = 0 \/ ySteps = 0 THEN {TRUE, FALSE} ELSE {FALSE}

ErrConcatenate == "ValueError: need at least one array to concatenate"
ErrRuntime == "RuntimeError"

\* lines 289-301: the resampling of the image, per channel for an RGB image
ResampleError(image) ==
    IF Ndim(image) = 3 /\ image.shape[3] = 0 THEN ErrConcatenate ELSE NoError

WarpBlank ==
    [stage |-> "validate", err |-> NoError, xSteps |-> 0, ySteps |-> 0,
     xNodes |-> <<>>, yNodes |-> <<>>, upsampled |-> FALSE,
     xIndices |-> <<>>, yIndices |-> <<>>, tform |-> Fresh,
     transform |-> None, warped |-> None]

\* the outcomes of tps_warp(a.image, a.src, a.dst, a.region, a.order, a.scaling);
\* stage is the step the call raised in, or "returned"
WarpOutcomes(a) ==
    IF ValidateImage(a.image) # NoError
    THEN {[WarpBlank EXCEPT !.err = ValidateImage(a.image)]}
    ELSE
    LET region == OutputRegion(a.image, a.region)
        scale == GridScaling(a.scaling)
        xSteps == Steps(region[1], region[3], scale)
        ySteps == Steps(region[2], region[4], scale)
        xNodes == Nodes(region[1], region[3], xSteps)
        yNodes == Nodes(region[2], region[4], ySteps)
        grid == [WarpBlank EXCEPT !.xSteps = xSteps, !.ySteps = ySteps,
                                  !.xNodes = xNodes, !.yNodes = yNodes]
        after(e) ==
            LET g == [grid EXCEPT !.tform = e.self]
                t == CallAlone(e.self, Mesh(xNodes, yNodes))
            IN  IF e.err # NoError
                THEN {[g EXCEPT !.stage = "estimate", !.err = e.err]}
                ELSE IF t.err # NoError
                THEN {[g EXCEPT !.stage = "evaluate", !.err = t.err]}
                ELSE
                LET up == [g EXCEPT !.upsampled = TRUE,
                              !.xIndices = Indices(region[1], region[3], xSteps),
                              !.yIndices = Indices(region[2], region[4], ySteps)]
                    resample(h) ==
                        IF ResampleError(a.image) # NoError
                        THEN [h EXCEPT !.stage = "resample",
                                       !.err = ResampleError(a.image)]
                        ELSE [h EXCEPT !.stage = "returned",
                                       !.transform = t.value,
                                       !.warped = [image |-> a.image,
                                                   order |-> a.order]]
                IN  IF scale # 1
                    THEN {IF raises
                          THEN [up EXCEPT !.stage = "upsample", !.err = ErrRuntime]
                          ELSE resample(up)
                          : raises \in UpsampleRaises(xSteps, ySteps)}
                    ELSE {resample(g)}
    IN  UNION {after(e) : e \in EstimateOutcomes(Fresh, a.dst, a.src)}

TpsWarp ==
    /\ warp.out = None
    /\ \E o \in WarpOutcomes(warp.args) : warp' = [warp EXCEPT !.out = o]
    /\ UNCHANGED <<inst, succeeded, last, calls, args>>

\* the images: every shape of rank 0..MaxRank with extents 0 or MaxExtent
ImageShapes ==
    UNION {[1..r -> {0, MaxExtent}] : r \in 0..MaxRank}
Images == {[shape |-> sh, data |-> <<>>] : sh \in ImageShapes}

Regions ==
    {<<>>} \cup
    {r \in (0..MaxExtent) \X (0..MaxExtent) \X (0..MaxExtent) \X (0..MaxExtent) :
        r[1] <= r[3] /\ r[2] <= r[4]}
Scalings == {<<>>} \cup {<<k>> : k \in 1..MaxScale}

WarpLandmarks == {<<Square(4), Rolled(4)>>, <<Square(2), Square(3)>>}

WarpArgs ==
    {[image |-> im, src |-> l[1], dst |-> l[2], region |-> r, order |-> 1,
      scaling |-> k] :
        im \in Images, l \in WarpLandmarks, r \in Regions, k \in Scalings}

InitWarp ==
    /\ estimated = FALSE
    /\ parameters = None
    /\ src = None
    /\ dst = None
    /\ succeeded = FALSE
    /\ last = [op |-> "init", err |-> NoError, ret |-> None]
    /\ pc = [p \in 1..MaxCalls |-> "idle"]
    /\ coords = [p \in 1..MaxCalls |-> None]
    /\ coeffs = [p \in 1..MaxCalls |-> None]
    /\ xwarp = [p \in 1..MaxCalls |-> None]
    /\ result = [p \in 1..MaxCalls |-> None]
    /\ args = <<None, None>>
    /\ warp \in {[args |-> a, out |-> None] : a \in WarpArgs}

NextWarp == TpsWarp

WarpSpec == InitWarp /\ [][NextWarp]_vars

(***************************************************************************)
(* The claims.                                                             *)
(***************************************************************************)
Callers == 1..MaxCalls

\* what _ensure_2d looks at, written on the array itself
IsLandmarkArray(a) == Ndim(a) \in {1, 2}
IsEmpty(a) == IsLandmarkArray(a) /\ Size(a) = 0
IsFew(a) == IsLandmarkArray(a) /\ Size(a) # 0 /\ a.shape[1] < 3
IsValid(a) == IsLandmarkArray(a) /\ Size(a) # 0 /\ a.shape[1] >= 3
HasLength(a) == Ndim(a) >= 1

\* C1: a failed estimate call leaves src, dst, parameters and _estimated as
\* they were before the call.
C1_FailedEstimateChangesNothing ==
    [][(last'.op = "estimate" /\ last'.err # NoError) => UNCHANGED inst]_vars

\* C2: an evaluation call ends in the Uninitialized error exactly when no
\* estimate call on the instance has succeeded before it; a call that got
\* past the guard runs on an instance some estimate succeeded on.
C2_UninitializedIffNeverEstimated ==
    \A p \in Callers :
        /\ pc[p] = "done" => ((result[p].err = ErrUninitialized) <=> ~succeeded)
        /\ pc[p] \in {"x_warp", "y_warp"} => succeeded

\* an evaluation call reported Uninitialized on an instance whose src a failed
\* estimate has already set
C2_Witness ==
    \E p \in Callers :
        pc[p] = "done" /\ result[p].err = ErrUninitialized /\ src # None

\* C3 as stated: 1-D or 2-D landmark sets of different lengths always end in
\* ShapeMismatch, also when one of them has fewer than 3 points.
C3_DifferentLengthsAlwaysShapeMismatch ==
    (/\ last.op = "estimate"
     /\ IsLandmarkArray(args[1]) /\ IsLandmarkArray(args[2])
     /\ args[1].shape[1] # args[2].shape[1])
    => last.err = ErrShapeMismatch

\* C3 amended: the arguments are validated first, src before dst, and the error
\* of the first one that fails is reported; landmark sets that both pass the
\* validation and differ in length end in ShapeMismatch.
C3_ShapeMismatchAfterValidation ==
    LET s == args[1]
        d == args[2]
    IN  last.op = "estimate" =>
        /\ (IsValid(s) /\ IsValid(d) /\ s.shape[1] # d.shape[1])
               => last.err = ErrShapeMismatch
        /\ (HasLength(d) /\ IsFew(s) /\ s.shape[1] # d.shape[1])
               => last.err = ErrLessThan3
        /\ (HasLength(d) /\ IsEmpty(s) /\ s.shape[1] # d.shape[1])
               => last.err = ErrEmpty
        /\ (IsValid(s) /\ IsFew(d)) => last.err = ErrLessThan3
        /\ (IsValid(s) /\ IsEmpty(d) /\ s.shape[1] # d.shape[1])
               => last.err = ErrEmpty

\* estimate was given two valid landmark sets of different lengths
C3_Witness ==
    /\ last.op = "estimate"
    /\ IsValid(args[1]) /\ IsValid(args[2])
    /\ args[1].shape[1] # args[2].shape[1]
    /\ last.err = ErrShapeMismatch

\* C4 as stated: fewer than 3 landmarks in a 1-D or 2-D src or dst, 0 included,
\* end in 'Array points less than 3 is undefined.' and leave no coefficients.
C4_FewerThanThreeAlwaysLessThan3 ==
    (/\ last.op = "estimate"
     /\ IsLandmarkArray(args[1]) /\ IsLandmarkArray(args[2])
     /\ \E a \in {args[1], args[2]} : a.shape[1] < 3)
    => (last.err = ErrLessThan3 /\ parameters = None)

\* C4 amended: 1 or 2 landmarks in src, or in dst when src passes the
\* validation, end in 'Array points less than 3 is undefined.'; an array without
\* elements ends in 'Array of points can not be empty.'; whenever one of the two
\* has fewer than 3 rows the call fails and leaves no coefficients.
C4_FewLandmarksRejected ==
    LET s == args[1]
        d == args[2]
    IN  last.op = "estimate" =>
        /\ IsFew(s) => last.err = ErrLessThan3
        /\ (IsValid(s) /\ IsFew(d)) => last.err = ErrLessThan3
        /\ IsEmpty(s) => last.err = ErrEmpty
        /\ (IsValid(s) /\ IsEmpty(d)) => last.err = ErrEmpty
        /\ (\E a \in {s, d} : HasLength(a) /\ a.shape[1] < 3)
               => (last.err # NoError /\ last.ret = None /\ parameters = None)

\* estimate was given a valid src and a dst of one or two landmarks
C4_Witness ==
    /\ last.op = "estimate"
    /\ IsValid(args[1]) /\ IsFew(args[2])
    /\ last.err = ErrLessThan3
    /\ parameters = None

\* C5: a request for the inverse raises NotImplementedError, returns nothing
\* and leaves parameters, src, dst and _estimated as they were.
C5_InverseAlwaysFails ==
    [][last'.op = "inverse" =>
          /\ last'.err = ErrNotImplemented
          /\ last'.ret = None
          /\ UNCHANGED inst]_vars

\* the inverse was requested of an instance that was estimated and then went
\* through a failed estimate
C5_Witness ==
    /\ last.op = "inverse"
    /\ parameters # None
    /\ parameters.L # src

\* C8: no step of an evaluation call changes parameters, src, dst or
\* _estimated, and every evaluation call, whatever other evaluation calls
\* overlap it, returns what it returns when run alone on the instance.
C8_EvaluationReadOnly ==
    /\ [][pc' # pc => UNCHANGED inst]_vars
    /\ [](\A p \in Callers :
            pc[p] = "done" => result[p] = CallAlone(Self, coords[p]))

\* an evaluation call has returned its points while another one, on other
\* query points, is between its two _spline_function calls
C8_Witness ==
    \E p, q \in Callers :
        /\ pc[p] = "done" /\ result[p].err = NoError
        /\ pc[q] = "y_warp" /\ coords[q] # coords[p]

\* C6: an image that is empty along a spatial axis or is not of rank 2 or 3 ends
\* tps_warp in the InvalidShape ValueError, before any estimation.
C6_BadImageRaisesInvalidShape ==
    LET im == warp.args.image
    IN  (/\ warp.out # None
         /\ \/ Ndim(im) \notin {2, 3}
            \/ \E k \in 1..Min(2, Ndim(im)) : im.shape[k] = 0)
        => /\ warp.out.err \in {ErrInvalidShape, ErrRank}
           /\ warp.out.stage = "validate"
           /\ warp.out.tform = Fresh

\* C7: at grid_scaling 1 (or None) the upsampling is not done and the grid nodes
\* are the integer pixel positions of the output region, one node per pixel.
C7_UnitScaleNodesArePixels ==
    LET a == warp.args
        o == warp.out
        region == OutputRegion(a.image, a.region)
        same(nodes, pixels) ==
            /\ Len(nodes) = Len(pixels)
            /\ \A i \in 1..Len(nodes) : RatEq(nodes[i], pixels[i])
    IN  (o # None /\ o.stage = "returned" /\ GridScaling(a.scaling) = 1)
        => /\ ~o.upsampled
           /\ same(o.xNodes, Pixels(region[1], region[3]))
           /\ same(o.yNodes, Pixels(region[2], region[4]))

\* C9: at grid_scaling > 1, on a region with xmin < xmax and ymin < ymax, the
\* coarse grid has a node on each axis and the coarse-grid coordinate of every
\* output pixel lies in [0, steps - 1].
C9_CoarseIndicesInGrid ==
    LET a == warp.args
        o == warp.out
        region == OutputRegion(a.image, a.region)
        inGrid(indices, steps) ==
            \A i \in 1..Len(indices) :
                RatLeq(Rat(0), indices[i]) /\ RatLeq(indices[i], Rat(steps - 1))
    IN  (/\ o # None /\ o.upsampled
         /\ GridScaling(a.scaling) > 1
         /\ region[1] < region[3] /\ region[2] < region[4])
        => /\ o.xSteps >= 1 /\ o.ySteps >= 1
           /\ inGrid(o.xIndices, o.xSteps)
           /\ inGrid(o.yIndices, o.ySteps)

\* C10: when parameters is not None it is the coefficient matrix of the src
\* the instance holds: len(src) + 3 rows, computed from that src.
C10_ParametersBelongToSrc ==
    parameters # None =>
        /\ parameters.rows = Length(src) + 3
        /\ parameters.L = src

====
